---------------------------- MODULE Spec2Model ----------------------------
(***************************************************************************)
(* Model of modmod's slide rendering (src/modmod/src/slides.rs): the       *)
(* staged builder SlidesPackageBuilder / SlideDeckBuilder /                *)
(* SlidesSectionBuilder and SlidesPackage::render.                         *)
(*                                                                         *)
(* Texts (Rust String / &str) are sequences of one-character strings, so   *)
(* that trim, starts_with, replace and format! are computed character by   *)
(* character.  Paths of input documents are opaque TLA+ strings.           *)
(***************************************************************************)
EXTENDS Naturals, Sequences, FiniteSets, TLC

VARIABLES
    \* ---- builder state (slides.rs 205-287)
    package,          \* SlidesPackage { name, decks }
    deck_builder,     \* <<>> or <<SlideDeck>>: the live SlideDeckBuilder.slide_deck
    section_builder,  \* <<>> or <<Section>>: the live SlidesSectionBuilder.section
    built,            \* build() has consumed the package builder
    ncalls,           \* number of builder calls made so far
    \* ---- history of the builder calls (not program state)
    deckLog,          \* decks whose add() was called, from the calls' arguments
    secLog,           \* sections whose add() was called on the live deck builder
    openDeck,         \* arguments of the deck() call that opened the live deck builder
    openSection,      \* content argument and pushes of the live section builder
    abandoned,        \* number of builders dropped without add()
    \* ---- render inputs (slides.rs 53-61)
    options,          \* SlidesRenderOptions { theme, package_json, url_base }
    \* ---- render locals and position
    pc,               \* position in render
    di,               \* index of the deck the loop of line 81 is at
    si,               \* index of the section an inner loop (89, 139) is at
    package_json,     \* the parsed manifest (line 62)
    package_scripts,  \* the accumulated scripts (line 70)
    unit_content,     \* line 85
    unit_objectives,  \* line 86
    unit_summary,     \* line 87
    \* ---- the output directory <out>/slides
    files,            \* file name (relative to <out>/slides) -> content
    images,           \* names of the files in <out>/slides/images
    package_json_file, \* <out>/slides/package.json: [state, json]
    result,           \* "running", "ok" or "err": what render returned
    \* ---- history of render's effects (not program state)
    effects           \* sequence of [op, deck]: the I/O and map effects, in order,
                      \* a failed one as "fail_<op>"

builderVars == <<package, deck_builder, section_builder, built, ncalls,
                 deckLog, secLog, openDeck, openSection, abandoned>>
renderVars == <<options, pc, di, si, package_json, package_scripts,
                unit_content, unit_objectives, unit_summary,
                files, images, package_json_file, result, effects>>
vars == <<builderVars, renderVars>>

-----------------------------------------------------------------------------
(* Bounds of the model.                                                    *)

\* most decks of a package drawn for render
MaxDecks == 2
\* most sections of the deck drawn for the content aggregation cases
MaxSecs == 2
\* most builder calls of one builder run
MaxCalls == 9

-----------------------------------------------------------------------------
(* Text primitives of the Rust standard library used by render.            *)

\* char::is_whitespace, on the characters the documents use
IsWhitespace(c) == c \in {" ", "\n", "\t", "\r"}

RECURSIVE TrimStart(_)
TrimStart(s) ==
    IF s = <<>> THEN s
    ELSE IF IsWhitespace(Head(s)) THEN TrimStart(Tail(s))
    ELSE s

RECURSIVE TrimEnd(_)
TrimEnd(s) ==
    IF s = <<>> THEN s
    ELSE IF IsWhitespace(s[Len(s)]) THEN TrimEnd(SubSeq(s, 1, Len(s) - 1))
    ELSE s

\* str::trim
Trim(s) == TrimEnd(TrimStart(s))

RECURSIVE TrimStartChar(_, _)
TrimStartChar(s, c) ==
    IF s = <<>> THEN s
    ELSE IF Head(s) = c THEN TrimStartChar(Tail(s), c)
    ELSE s

RECURSIVE TrimEndChar(_, _)
TrimEndChar(s, c) ==
    IF s = <<>> THEN s
    ELSE IF s[Len(s)] = c THEN TrimEndChar(SubSeq(s, 1, Len(s) - 1), c)
    ELSE s

\* str::trim_matches(char)
TrimMatches(s, c) == TrimEndChar(TrimStartChar(s, c), c)

\* str::starts_with(&str)
StartsWith(s, p) == Len(s) >= Len(p) /\ SubSeq(s, 1, Len(p)) = p

\* pat occurs in s at position i
MatchAt(s, i, pat) ==
    /\ i + Len(pat) - 1 <= Len(s)
    /\ \A k \in 1..Len(pat) : s[i + k - 1] = pat[k]

\* the first position from i on where pat occurs in s, 0 when there is none
FirstMatch(s, i, pat) ==
    LET at == {k \in i..Len(s) : MatchAt(s, k, pat)}
    IN  IF at = {} THEN 0 ELSE CHOOSE k \in at : \A j \in at : k <= j

RECURSIVE ReplaceFrom(_, _, _, _)
ReplaceFrom(s, i, from, to) ==
    LET k == FirstMatch(s, i, from)
    IN  IF k = 0 THEN SubSeq(s, i, Len(s))
        ELSE SubSeq(s, i, k - 1) \o to
             \o ReplaceFrom(s, k + Len(from), from, to)

\* str::replace(from, to): every non-overlapping match, left to right
\* (from is never empty here)
Replace(s, from, to) == ReplaceFrom(s, 1, from, to)

DigitChar == <<"0", "1", "2", "3", "4", "5", "6", "7", "8", "9">>

\* usize's Display / to_string: decimal digits
RECURSIVE Decimal(_)
Decimal(n) ==
    IF n < 10 THEN <<DigitChar[n + 1]>>
    ELSE Decimal(n \div 10) \o <<DigitChar[(n % 10) + 1]>>

-----------------------------------------------------------------------------
(* Maps (serde_json::Map<String, Value>) as functions.                     *)

EmptyMap == [k \in {} |-> <<>>]

\* Map::insert: the new value replaces an existing one
MapInsert(m, k, v) ==
    [x \in DOMAIN m \cup {k} |-> IF x = k THEN v ELSE m[x]]

\* a merge in which an existing entry of m wins over the entry of other
MapAppend_KeepExisting(m, other) ==
    [x \in DOMAIN m \cup DOMAIN other |->
        IF x \in DOMAIN m THEN m[x] ELSE other[x]]

\* Map::append(&mut other): every entry of other is moved into m, an entry
\* of other replacing the entry of m with the same key
MapAppend(m, other) ==
    [x \in DOMAIN m \cup DOMAIN other |->
        IF x \in DOMAIN other THEN other[x] ELSE m[x]]

\* serde_json::Value::String and Value::Object
JString(s) == [kind |-> "string", str |-> s, map |-> EmptyMap]
JObject(m) == [kind |-> "object", str |-> <<>>, map |-> m]

-----------------------------------------------------------------------------
(* The staged builder (slides.rs 43-51, 205-287).                          *)

\* Option<T>: None is <<>>, Some(x) is <<x>>
None == <<>>
Some(x) == <<x>>

\* struct SlideDeck, as SlidesPackageBuilder::deck fills it
SlideDeck(name, module_name, module_index, unit_index, template) ==
    [name |-> name, module_name |-> module_name,
     module_index |-> module_index, unit_index |-> unit_index,
     template |-> template, sections |-> <<>>]

\* struct Section, as SlideDeckBuilder::section fills it
Section(content) ==
    [content |-> content, objectives |-> <<>>, summary |-> <<>>,
     further_reading |-> <<>>, images |-> <<>>]

\* Vec::push
Push(v, x) == Append(v, x)

\* the arguments the builder calls are drawn from
DeckArgs ==
    { [name |-> <<"A">>, module_name |-> <<"M">>, module_index |-> 1,
       unit_index |-> 1, template |-> None],
      [name |-> <<"B">>, module_name |-> <<"M">>, module_index |-> 1,
       unit_index |-> 2, template |-> Some("t.md")] }
ContentArgs == {"a.md"}
ObjectiveArgs == {<<"x">>, <<"y">>}
SummaryArgs == {<<"s">>}
FurtherReadingArgs == {<<"f">>}
ImageArgs == {"i1.png"}

\* builders that a call on an enclosing builder leaves without add()
Dropped(n) == abandoned' = abandoned + n
Live(b) == IF b = None THEN 0 ELSE 1

\* SlidesPackage::builder(name)
BuilderStart ==
    /\ package = [name |-> <<"T">>, decks |-> <<>>]
    /\ deck_builder = None
    /\ section_builder = None
    /\ built = FALSE
    /\ ncalls = 0
    /\ deckLog = <<>>
    /\ secLog = <<>>
    /\ openDeck = None
    /\ openSection = None
    /\ abandoned = 0

\* SlidesPackageBuilder::deck: opens a deck builder.  A deck or section
\* builder still alive is no longer usable and is dropped as it is.
BuilderDeck(a) ==
    /\ ~built /\ ncalls < MaxCalls
    /\ UNCHANGED renderVars
    /\ deck_builder' = Some(SlideDeck(a.name, a.module_name, a.module_index,
                                      a.unit_index, a.template))
    /\ section_builder' = None
    /\ ncalls' = ncalls + 1
    /\ openDeck' = Some(a)
    /\ secLog' = <<>>
    /\ openSection' = None
    /\ Dropped(Live(deck_builder) + Live(section_builder))
    /\ UNCHANGED <<package, built, deckLog>>

\* SlideDeckBuilder::section: opens a section builder
DeckSection(content) ==
    /\ ~built /\ ncalls < MaxCalls
    /\ UNCHANGED renderVars
    /\ deck_builder # None
    /\ section_builder' = Some(Section(content))
    /\ ncalls' = ncalls + 1
    /\ openSection' = Some([content |-> content, objectives |-> <<>>,
                            summary |-> <<>>, further_reading |-> <<>>,
                            images |-> <<>>])
    /\ Dropped(Live(section_builder))
    /\ UNCHANGED <<package, deck_builder, built, deckLog, secLog, openDeck>>

\* one of the four pushes of a section builder: field is the Vec pushed to
SectionPush(field, x) ==
    /\ ~built /\ ncalls < MaxCalls
    /\ UNCHANGED renderVars
    /\ section_builder # None
    /\ section_builder' =
         Some([section_builder[1] EXCEPT ![field] = Push(@, x)])
    /\ ncalls' = ncalls + 1
    /\ openSection' = Some([openSection[1] EXCEPT ![field] = Append(@, x)])
    /\ UNCHANGED <<package, deck_builder, built, deckLog, secLog, openDeck,
                   abandoned>>

\* SlidesSectionBuilder::objective
SectionObjective(objective) == SectionPush("objectives", objective)

\* SlidesSectionBuilder::summary
SectionSummary(summary) == SectionPush("summary", summary)

\* SlidesSectionBuilder::further_reading
SectionFurtherReading(further_reading) ==
    SectionPush("further_reading", further_reading)

\* SlidesSectionBuilder::image
SectionImage(image) == SectionPush("images", image)

\* the deck builder's section list after SlidesSectionBuilder::add
SectionsAfterAdd(sections, section) == Push(sections, section)

\* SlidesSectionBuilder::add: the section goes to the deck builder
SectionAdd ==
    /\ ~built /\ ncalls < MaxCalls
    /\ UNCHANGED renderVars
    /\ section_builder # None
    /\ deck_builder' =
         Some([deck_builder[1] EXCEPT
                 !.sections = SectionsAfterAdd(@, section_builder[1])])
    /\ section_builder' = None
    /\ ncalls' = ncalls + 1
    /\ secLog' = Append(secLog, openSection[1])
    /\ openSection' = None
    /\ UNCHANGED <<package, built, deckLog, openDeck, abandoned>>

\* a deck added in front of the decks added before it
DecksAfterAdd_Front(decks, slide_deck) == <<slide_deck>> \o decks

\* the package builder's deck list after SlideDeckBuilder::add
DecksAfterAdd(decks, slide_deck) == Push(decks, slide_deck)

\* SlideDeckBuilder::add: the deck goes to the package builder
DeckAdd ==
    /\ ~built /\ ncalls < MaxCalls
    /\ UNCHANGED renderVars
    /\ deck_builder # None
    /\ package' = [package EXCEPT
                     !.decks = DecksAfterAdd(@, deck_builder[1])]
    /\ deck_builder' = None
    /\ section_builder' = None
    /\ ncalls' = ncalls + 1
    /\ deckLog' = Append(deckLog,
                    [name |-> openDeck[1].name,
                     module_name |-> openDeck[1].module_name,
                     module_index |-> openDeck[1].module_index,
                     unit_index |-> openDeck[1].unit_index,
                     template |-> openDeck[1].template,
                     sections |-> secLog])
    /\ secLog' = <<>>
    /\ openDeck' = None
    /\ openSection' = None
    /\ Dropped(Live(section_builder))
    /\ UNCHANGED built

\* SlidesPackageBuilder::build
Build ==
    /\ ~built /\ ncalls < MaxCalls
    /\ UNCHANGED renderVars
    /\ built' = TRUE
    /\ deck_builder' = None
    /\ section_builder' = None
    /\ ncalls' = ncalls + 1
    /\ secLog' = <<>>
    /\ openDeck' = None
    /\ openSection' = None
    /\ Dropped(Live(deck_builder) + Live(section_builder))
    /\ UNCHANGED <<package, deckLog>>

-----------------------------------------------------------------------------
(* Text constants of render (slides.rs 94-155).                            *)

\* "#[modmod:" name "]"
Placeholder(name) ==
    <<"#", "[", "m", "o", "d", "m", "o", "d", ":">> \o name \o <<"]">>

TOK_MOD_TITLE == Placeholder(<<"m", "o", "d", "_", "t", "i", "t", "l", "e">>)
TOK_MOD_INDEX == Placeholder(<<"m", "o", "d", "_", "i", "n", "d", "e", "x">>)
TOK_UNIT_INDEX == Placeholder(<<"u", "n", "i", "t", "_", "i", "n", "d", "e", "x">>)
TOK_UNIT_TITLE == Placeholder(<<"u", "n", "i", "t", "_", "t", "i", "t", "l", "e">>)
TOK_CONTENT == Placeholder(<<"c", "o", "n", "t", "e", "n", "t">>)
TOK_OBJECTIVES == Placeholder(<<"o", "b", "j", "e", "c", "t", "i", "v", "e", "s">>)
TOK_SUMMARY == Placeholder(<<"s", "u", "m", "m", "a", "r", "y">>)
TOK_THEME == Placeholder(<<"t", "h", "e", "m", "e">>)

RULE == <<"-", "-", "-">>
RULE_BLANK == <<"-", "-", "-", "\n", "\n">>
NL == <<"\n">>
BULLET == <<"-", " ">>
DEV_ == <<"d", "e", "v", "-">>
BUILD_ == <<"b", "u", "i", "l", "d", "-">>
EXPORT_ == <<"e", "x", "p", "o", "r", "t", "-">>
SLIDEV_ == <<"s", "l", "i", "d", "e", "v", " ">>
SLIDEV_BUILD_ ==
    <<"s", "l", "i", "d", "e", "v", " ", "b", "u", "i", "l", "d", " ", "-", "-", "d", "o", "w", "n", "l", "o", "a", "d", " ", "-", "-", "o", "u", "t", " ", "d", "i", "s", "t", "/">>
BASE_ == <<" ", "-", "-", "b", "a", "s", "e", " ", "/">>
SLIDES_ == <<"s", "l", "i", "d", "e", "s", "/">>
SLIDEV_EXPORT_ ==
    <<"s", "l", "i", "d", "e", "v", " ", "e", "x", "p", "o", "r", "t", " ">>
DOT_MD == <<".", "m", "d">>
SENTINEL == <<"_">>

-----------------------------------------------------------------------------
(* The environment of render: the documents on disk, and the helpers of    *)
(* crate::io and crate (to_tag, to_prefixed_tag), which are not part of    *)
(* slides.rs.                                                              *)

\* the text documents on disk; a path outside the domain cannot be read
Documents ==
    [p \in {"a.md", "blank.md", "empty.md", "rule.md", "pad.md", "dash.md",
            "rulepad.md", "tok.md", "t.md", "t_title.md", "t_twice.md"} |->
        CASE p = "a.md" -> <<"a">>
          [] p = "blank.md" -> <<" ", "\n">>
          [] p = "empty.md" -> <<>>
          [] p = "rule.md" -> <<"-", "-", "-", "\n", "b">>
          [] p = "pad.md" -> <<"\n", " ", "c", " ", "d", "\t", "\n">>
          [] p = "dash.md" -> <<"-", "-", "e">>
          [] p = "rulepad.md" -> <<" ", "-", "-", "-", "-", "\n">>
          [] p = "tok.md" -> TOK_THEME
          [] p = "t.md" -> TOK_UNIT_TITLE \o <<"|">> \o TOK_CONTENT \o <<"|">>
                           \o TOK_THEME
          [] p = "t_title.md" -> TOK_MOD_TITLE \o <<"/">> \o TOK_MOD_INDEX
                                 \o <<".">> \o TOK_UNIT_INDEX
          [] p = "t_twice.md" -> TOK_THEME \o TOK_SUMMARY \o <<"+">>
                                 \o TOK_OBJECTIVES \o TOK_THEME]

\* PathExt::read_to_string
ReadToString(path) ==
    IF path \in DOMAIN Documents
    THEN [ok |-> TRUE, text |-> Documents[path]]
    ELSE [ok |-> FALSE, text |-> <<>>]

\* include_str!("../include/slides/default.md")
SLIDES_TEMPLATE_DEFAULT ==
    TOK_MOD_TITLE \o <<":">> \o TOK_UNIT_TITLE \o NL \o TOK_OBJECTIVES
    \o TOK_CONTENT \o TOK_SUMMARY

\* the image files on disk
ExistingImages == {"i1.png", "i2.png"}

\* the scripts object of the manifest "pkg_scripts.json"
OldScripts ==
    [k \in {<<"t", "e", "s", "t">>, DEV_ \o <<"1", "_", "1">>, SENTINEL} |->
        CASE k = SENTINEL -> JString(<<"u">>)
          [] k = <<"t", "e", "s", "t">> -> JString(<<"j">>)
          [] OTHER -> JString(<<"o", "l", "d">>)]

\* the manifest documents on disk, as serde_json::from_str parses them;
\* "pkg_malformed.json" is no JSON object, other paths cannot be read
Manifests ==
    [p \in {"pkg_plain.json", "pkg_scripts.json", "pkg_badscripts.json"} |->
        CASE p = "pkg_plain.json" ->
               [k \in {"name", "version"} |-> JString(<<"v">>)]
          [] p = "pkg_scripts.json" ->
               [k \in {"name", "scripts"} |->
                  IF k = "name" THEN JString(<<"v">>) ELSE JObject(OldScripts)]
          [] p = "pkg_badscripts.json" ->
               [k \in {"scripts"} |-> JString(<<"n", "o">>)]]

\* include_str!("../include/slides/package.json"), parsed
PACKAGE_JSON_CONTENT_STUB ==
    [k \in {"name", "scripts"} |->
        IF k = "name" THEN JString(<<"s">>) ELSE JObject(EmptyMap)]

\* lines 62-67: the manifest render starts from
ParseManifest(opt) ==
    IF opt = None THEN [ok |-> TRUE, json |-> PACKAGE_JSON_CONTENT_STUB]
    ELSE IF opt[1] \in DOMAIN Manifests
         THEN [ok |-> TRUE, json |-> Manifests[opt[1]]]
         ELSE [ok |-> FALSE, json |-> EmptyMap]

UpperCase == <<"A", "B", "M", "T">>
LowerCase == <<"a", "b", "m", "t">>
TagChars == {"a", "b", "c", "d", "e", "f", "g", "h", "i", "j", "k", "l", "m",
             "n", "o", "p", "q", "r", "s", "t", "u", "v", "w", "x", "y", "z",
             "0", "1", "2", "3", "4", "5", "6", "7", "8", "9"}

\* one character of a tag: lower case, anything but a letter or digit a dash
ToTagChar(c) ==
    IF \E i \in 1..Len(UpperCase) : UpperCase[i] = c
    THEN LowerCase[CHOOSE i \in 1..Len(UpperCase) : UpperCase[i] = c]
    ELSE IF c \in TagChars THEN c ELSE "-"

\* crate::to_tag
ToTag(s) == [i \in 1..Len(s) |-> ToTagChar(s[i])]

\* crate::to_prefixed_tag
ToPrefixedTag(s, prefix) == prefix \o <<"_">> \o ToTag(s)

\* the content of a file of the output directory
Absent == [state |-> "absent", json |-> EmptyMap]
Truncated == [state |-> "empty", json |-> EmptyMap]
JsonFile(json) == [state |-> "json", json |-> json]

\* what an earlier render left in the output directory
OldDeckFile == <<"o", "l", "d">>
OldPackageJsonFile == JsonFile([k \in {"name"} |-> JString(<<"o">>)])

-----------------------------------------------------------------------------
(* SlidesPackage::render (slides.rs 53-182): the values it computes.       *)

\* the prefix with the two indices in the other order
DeckPrefix_Swapped(deck) ==
    Decimal(deck.unit_index) \o <<"_">> \o Decimal(deck.module_index)

\* line 82
DeckPrefix(deck) ==
    Decimal(deck.module_index) \o <<"_">> \o Decimal(deck.unit_index)

\* line 83
DeckSlug(deck) == ToPrefixedTag(deck.name, DeckPrefix(deck))

\* lines 84, 117-121: the deck's output file, relative to <out>/slides
DeckOutputStr(deck) == DeckSlug(deck) \o DOT_MD

\* lines 78-79
UrlBase(url_base) == TrimMatches(url_base, "/")
UrlBaseSeparator(url_base) ==
    IF UrlBase(url_base) = <<>> THEN <<>> ELSE <<"/">>

\* lines 124, 129, 134: the keys of a deck's scripts
DevKey(deck) == DEV_ \o DeckPrefix(deck)
BuildKey(deck) == BUILD_ \o DeckPrefix(deck)
ExportKey(deck) == EXPORT_ \o DeckPrefix(deck)

\* lines 125, 130, 135: the commands of a deck's scripts
DevScript(deck) == JString(SLIDEV_ \o DeckOutputStr(deck))
BuildScript(deck, url_base) ==
    JString(SLIDEV_BUILD_ \o DeckSlug(deck) \o BASE_ \o UrlBase(url_base)
            \o UrlBaseSeparator(url_base) \o SLIDES_
            \o Decimal(deck.module_index) \o <<"_">>
            \o Decimal(deck.unit_index) \o <<"/", " ">>
            \o DeckOutputStr(deck))
ExportScript(deck) == JString(SLIDEV_EXPORT_ \o DeckOutputStr(deck))

\* the aggregation with the document taken untrimmed
AppendContent_NoTrim(content, document) ==
    IF document # <<>>
    THEN (IF ~StartsWith(document, RULE)
          THEN content \o RULE_BLANK ELSE content)
         \o document \o NL
    ELSE content

\* the aggregation that puts the rule marker before every fragment
AppendContent_AlwaysRule(content, document) ==
    IF Trim(document) # <<>>
    THEN content \o RULE_BLANK \o Trim(document) \o NL
    ELSE content

\* lines 93-99: unit_content after one section's document
AppendContent(content, document) ==
    LET topic_content == Trim(document)
    IN  IF topic_content # <<>>
        THEN (IF ~StartsWith(topic_content, RULE)
              THEN content \o RULE_BLANK ELSE content)
             \o topic_content \o NL
        ELSE content

\* lines 101-103 and 105-107: one bullet line per item
RECURSIVE AppendItems(_, _)
AppendItems(text, items) ==
    IF items = <<>> THEN text
    ELSE AppendItems(text \o BULLET \o Trim(Head(items)) \o NL, Tail(items))

\* line 110
AllEmpty(content, objectives, summary) ==
    content = <<>> /\ objectives = <<>> /\ summary = <<>>

\* lines 143-146
LoadTemplate(deck) ==
    IF deck.template = None
    THEN [ok |-> TRUE, text |-> SLIDES_TEMPLATE_DEFAULT]
    ELSE ReadToString(deck.template[1])

\* lines 147-155: the chain of replace calls
Substitute(template_content, deck, content, objectives, summary, theme) ==
    LET r1 == Replace(template_content, TOK_MOD_TITLE, deck.module_name)
        r2 == Replace(r1, TOK_MOD_INDEX, Decimal(deck.module_index))
        r3 == Replace(r2, TOK_UNIT_INDEX, Decimal(deck.unit_index))
        r4 == Replace(r3, TOK_UNIT_TITLE, deck.name)
        r5 == Replace(r4, TOK_CONTENT, content)
        r6 == Replace(r5, TOK_OBJECTIVES, objectives)
        r7 == Replace(r6, TOK_SUMMARY, summary)
    IN  Replace(r7, TOK_THEME, theme)

\* copy_files(&section.images, &slide_images_dir): the files copied before
\* the first one that is missing, and whether all were copied
RECURSIVE CopyFiles(_, _)
CopyFiles(paths, dir) ==
    IF paths = <<>> THEN [ok |-> TRUE, dir |-> dir]
    ELSE IF Head(paths) \in ExistingImages
         THEN CopyFiles(Tail(paths), dir \cup {Head(paths)})
         ELSE [ok |-> FALSE, dir |-> dir]

\* a merge that replaces a scripts field that is no object
MergeScripts_Replace(json, scripts) ==
    IF "scripts" \in DOMAIN json /\ json["scripts"].kind = "object"
    THEN [ok |-> TRUE,
          json |-> [json EXCEPT !["scripts"] =
                      JObject(MapAppend(@.map, scripts))]]
    ELSE [ok |-> TRUE, json |-> MapInsert(json, "scripts", JObject(scripts))]

\* lines 164-174: the manifest with the accumulated scripts merged in
MergeScripts(json, scripts) ==
    IF "scripts" \in DOMAIN json
    THEN IF json["scripts"].kind = "object"
         THEN [ok |-> TRUE,
               json |-> [json EXCEPT !["scripts"] =
                           JObject(MapAppend(@.map, scripts))]]
         ELSE [ok |-> FALSE, json |-> json]
    ELSE [ok |-> TRUE, json |-> MapInsert(json, "scripts", JObject(scripts))]

-----------------------------------------------------------------------------
(* The inputs render is run on.                                            *)

Sec(content, objectives, summary, image_paths) ==
    [content |-> content, objectives |-> objectives, summary |-> summary,
     further_reading |-> <<>>, images |-> image_paths]

Dk(name, module_name, module_index, unit_index, template, sections) ==
    [name |-> name, module_name |-> module_name,
     module_index |-> module_index, unit_index |-> unit_index,
     template |-> template, sections |-> sections]

SeqsUpTo(S, n) == UNION {[1..k -> S] : k \in 0..n}

\* decks of the general cases: emitted and skipped decks, decks sharing the
\* index pair, decks whose documents, images or template are missing
DeckChoices ==
    { Dk(<<"A">>, <<"M">>, 1, 1, None,
         <<Sec("a.md", <<>>, <<>>, <<"i1.png">>)>>),
      Dk(<<"A">>, <<"M">>, 1, 1, None,
         <<Sec("blank.md", <<>>, <<>>, <<"i2.png">>)>>),
      Dk(<<"B">>, <<"M">>, 1, 2, None,
         <<Sec("rule.md", <<<<" ", "x", " ">>>>, <<>>, <<>>),
           Sec("pad.md", <<>>, <<<<"s">>, <<"t">>>>, <<"i2.png">>)>>),
      Dk(<<"B">>, <<"M">>, 1, 2, None, <<>>),
      Dk(<<"A">>, <<"M">>, 12, 3, Some("t.md"),
         <<Sec("blank.md", <<<<"x">>>>, <<>>, <<>>)>>),
      Dk(<<"A">>, <<"M">>, 1, 1, Some("missing_t.md"),
         <<Sec("a.md", <<>>, <<>>, <<"i1.png">>)>>),
      Dk(<<"B">>, <<"M">>, 2, 1, None,
         <<Sec("a.md", <<>>, <<>>, <<>>), Sec("missing.md", <<>>, <<>>, <<>>)>>),
      Dk(<<"B">>, <<"M">>, 1, 1, None,
         <<Sec("a.md", <<>>, <<>>, <<"i1.png", "nofile.png", "i2.png">>)>>) }

Opt(theme, package_json_path, url_base) ==
    [theme |-> theme, package_json |-> package_json_path,
     url_base |-> url_base]

RenderOptions ==
    { Opt(<<"d">>, None, <<>>),
      Opt(<<"d">>, Some("pkg_scripts.json"), <<"/", "x", "/">>),
      Opt(<<"d">>, Some("pkg_plain.json"), <<"x">>),
      Opt(<<"d">>, Some("pkg_badscripts.json"), <<>>),
      Opt(<<"d">>, Some("pkg_malformed.json"), <<>>) }

GeneralInputs ==
    {[decks |-> d, options |-> o] :
        d \in SeqsUpTo(DeckChoices, MaxDecks), o \in RenderOptions}

\* one deck whose sections have the documents of every shape
ContentDocs ==
    {"a.md", "blank.md", "empty.md", "rule.md", "pad.md", "dash.md",
     "rulepad.md"}

ContentInputs ==
    {[decks |-> <<Dk(<<"A">>, <<"M">>, 1, 1, None,
                     [i \in 1..Len(c) |-> Sec(c[i], <<>>, <<>>, <<>>)])>>,
      options |-> Opt(<<"d">>, None, <<>>)] :
        c \in SeqsUpTo(ContentDocs, MaxSecs) \ {<<>>}}

\* one deck whose titles, texts and theme contain placeholder tokens
TemplateInputs ==
    {[decks |-> <<Dk(n, m, 1, 1, t, s)>>, options |-> Opt(th, None, <<>>)] :
        n \in {<<"A">>, TOK_CONTENT, TOK_THEME},
        m \in {<<"M">>, TOK_THEME, TOK_UNIT_TITLE},
        t \in {None, Some("t.md"), Some("t_title.md"), Some("t_twice.md")},
        s \in {<<Sec("tok.md", <<TOK_SUMMARY>>, <<TOK_THEME>>, <<>>)>>,
               <<Sec("a.md", <<>>, <<>>, <<>>)>>},
        th \in {<<"d">>, TOK_CONTENT, TOK_MOD_TITLE}}

RenderInputs == GeneralInputs \cup ContentInputs \cup TemplateInputs

\* the builder has been consumed by build()
BuilderDone ==
    /\ deck_builder = None
    /\ section_builder = None
    /\ built = TRUE
    /\ ncalls = 0
    /\ deckLog = <<>>
    /\ secLog = <<>>
    /\ openDeck = None
    /\ openSection = None
    /\ abandoned = 0

\* render has not been called
RenderIdle ==
    /\ options = Opt(<<"d">>, None, <<>>)
    /\ pc = "idle"
    /\ di = 0
    /\ si = 0
    /\ package_json = EmptyMap
    /\ package_scripts = EmptyMap
    /\ unit_content = <<>>
    /\ unit_objectives = <<>>
    /\ unit_summary = <<>>
    /\ files = EmptyMap
    /\ images = {}
    /\ package_json_file = Absent
    /\ result = "running"
    /\ effects = <<>>

\* the call of render on a built package, the output directory empty or
\* holding what an earlier render of a deck "A" of module 1 unit 1 left
Init ==
    /\ BuilderDone
    /\ \E in \in RenderInputs :
          /\ package = [name |-> <<"T">>, decks |-> in.decks]
          /\ options = in.options
    /\ \E old \in BOOLEAN :
          /\ files = IF old
                     THEN [f \in {<<"1", "_", "1", "_", "a">> \o DOT_MD} |->
                             OldDeckFile]
                     ELSE EmptyMap
          /\ package_json_file = IF old THEN OldPackageJsonFile ELSE Absent
    /\ pc = "start"
    /\ di = 0
    /\ si = 0
    /\ package_json = EmptyMap
    /\ package_scripts = EmptyMap
    /\ unit_content = <<>>
    /\ unit_objectives = <<>>
    /\ unit_summary = <<>>
    /\ images = {}
    /\ result = "running"
    /\ effects = <<>>

-----------------------------------------------------------------------------
(* SlidesPackage::render (slides.rs 53-182): its steps.                    *)

\* the deck the loop of line 81 is at
Deck == package.decks[di]

Effect(op) == [op |-> op, deck |-> di]

\* a `?` that returns the error: render ends
Failed ==
    /\ pc' = "failed"
    /\ result' = "err"

\* lines 62-65: the manifest cannot be read or is not a JSON object
ManifestFail ==
    /\ pc = "start"
    /\ ~ParseManifest(options.package_json).ok
    /\ Failed
    /\ UNCHANGED <<builderVars, options, di, si, package_json,
                   package_scripts, unit_content, unit_objectives,
                   unit_summary, files, images, package_json_file, effects>>

\* lines 74, 77: create_dir_all fails
CreateDirFail ==
    /\ pc = "start"
    /\ ParseManifest(options.package_json).ok
    /\ Failed
    /\ UNCHANGED <<builderVars, options, di, si, package_json,
                   package_scripts, unit_content, unit_objectives,
                   unit_summary, files, images, package_json_file, effects>>

\* lines 62-79
RenderStart ==
    /\ pc = "start"
    /\ ParseManifest(options.package_json).ok
    /\ package_json' = MapInsert(ParseManifest(options.package_json).json,
                                 "name", JString(ToTag(package.name)))
    /\ package_scripts' = EmptyMap
    /\ di' = 1
    /\ pc' = "loop"
    /\ UNCHANGED <<builderVars, options, si, unit_content, unit_objectives,
                   unit_summary, files, images, package_json_file, result,
                   effects>>

\* lines 81-87: the next deck
LoopHead ==
    /\ pc = "loop"
    /\ di <= Len(package.decks)
    /\ unit_content' = <<>>
    /\ unit_objectives' = <<>>
    /\ unit_summary' = <<>>
    /\ si' = 1
    /\ pc' = "read"
    /\ UNCHANGED <<builderVars, options, di, package_json, package_scripts,
                   files, images, package_json_file, result, effects>>

\* lines 89-108: one section is aggregated
ReadSection ==
    /\ pc = "read"
    /\ si <= Len(Deck.sections)
    /\ LET section == Deck.sections[si]
           doc == ReadToString(section.content)
       IN  /\ doc.ok
           /\ unit_content' = AppendContent(unit_content, doc.text)
           /\ unit_objectives' =
                AppendItems(unit_objectives, section.objectives)
           /\ unit_summary' = AppendItems(unit_summary, section.summary)
    /\ si' = si + 1
    /\ effects' = Append(effects, Effect("read"))
    /\ UNCHANGED <<builderVars, options, pc, di, package_json,
                   package_scripts, files, images, package_json_file,
                   result>>

\* line 90: the section's document cannot be read
ReadSectionFail ==
    /\ pc = "read"
    /\ si <= Len(Deck.sections)
    /\ ~ReadToString(Deck.sections[si].content).ok
    /\ Failed
    /\ effects' = Append(effects, Effect("fail_read"))
    /\ UNCHANGED <<builderVars, options, di, si, package_json,
                   package_scripts, unit_content, unit_objectives,
                   unit_summary, files, images, package_json_file>>

\* lines 110-112: nothing to show, the deck is skipped
SkipDeck ==
    /\ pc = "read"
    /\ si > Len(Deck.sections)
    /\ AllEmpty(unit_content, unit_objectives, unit_summary)
    /\ di' = di + 1
    /\ pc' = "loop"
    /\ UNCHANGED <<builderVars, options, si, package_json, package_scripts,
                   unit_content, unit_objectives, unit_summary, files,
                   images, package_json_file, result, effects>>

\* the deck's file opened without truncating it when it exists
CreateFile_NoTruncate ==
    /\ pc = "read"
    /\ si > Len(Deck.sections)
    /\ ~AllEmpty(unit_content, unit_objectives, unit_summary)
    /\ files' = IF DeckOutputStr(Deck) \in DOMAIN files THEN files
                ELSE MapInsert(files, DeckOutputStr(Deck), <<>>)
    /\ pc' = "reg_dev"
    /\ effects' = Append(effects, Effect("create"))
    /\ UNCHANGED <<builderVars, options, di, si, package_json,
                   package_scripts, unit_content, unit_objectives,
                   unit_summary, images, package_json_file, result>>

\* line 114: the deck's file is created, or truncated if it exists
CreateFile ==
    /\ pc = "read"
    /\ si > Len(Deck.sections)
    /\ ~AllEmpty(unit_content, unit_objectives, unit_summary)
    /\ files' = MapInsert(files, DeckOutputStr(Deck), <<>>)
    /\ pc' = "reg_dev"
    /\ effects' = Append(effects, Effect("create"))
    /\ UNCHANGED <<builderVars, options, di, si, package_json,
                   package_scripts, unit_content, unit_objectives,
                   unit_summary, images, package_json_file, result>>

\* line 114: create_file fails
CreateFileFail ==
    /\ pc = "read"
    /\ si > Len(Deck.sections)
    /\ ~AllEmpty(unit_content, unit_objectives, unit_summary)
    /\ Failed
    /\ effects' = Append(effects, Effect("fail_create"))
    /\ UNCHANGED <<builderVars, options, di, si, package_json,
                   package_scripts, unit_content, unit_objectives,
                   unit_summary, files, images, package_json_file>>

\* lines 123-126
RegisterDev ==
    /\ pc = "reg_dev"
    /\ package_scripts' =
         MapInsert(package_scripts, DevKey(Deck), DevScript(Deck))
    /\ pc' = "reg_build"
    /\ effects' = Append(effects, Effect("register"))
    /\ UNCHANGED <<builderVars, options, di, si, package_json, unit_content,
                   unit_objectives, unit_summary, files, images,
                   package_json_file, result>>

\* lines 128-132
RegisterBuild ==
    /\ pc = "reg_build"
    /\ package_scripts' =
         MapInsert(package_scripts, BuildKey(Deck),
                   BuildScript(Deck, options.url_base))
    /\ pc' = "reg_export"
    /\ effects' = Append(effects, Effect("register"))
    /\ UNCHANGED <<builderVars, options, di, si, package_json, unit_content,
                   unit_objectives, unit_summary, files, images,
                   package_json_file, result>>

\* lines 133-137
RegisterExport ==
    /\ pc = "reg_export"
    /\ package_scripts' =
         MapInsert(package_scripts, ExportKey(Deck), ExportScript(Deck))
    /\ pc' = "copy"
    /\ si' = 1
    /\ effects' = Append(effects, Effect("register"))
    /\ UNCHANGED <<builderVars, options, di, package_json, unit_content,
                   unit_objectives, unit_summary, files, images,
                   package_json_file, result>>

\* lines 139-141: the images of one section are copied
CopyImages ==
    /\ pc = "copy"
    /\ si <= Len(Deck.sections)
    /\ CopyFiles(Deck.sections[si].images, images).ok
    /\ images' = CopyFiles(Deck.sections[si].images, images).dir
    /\ si' = si + 1
    /\ effects' = Append(effects, Effect("copy"))
    /\ UNCHANGED <<builderVars, options, pc, di, package_json,
                   package_scripts, unit_content, unit_objectives,
                   unit_summary, files, package_json_file, result>>

\* line 140: copy_files fails
CopyImagesFail ==
    /\ pc = "copy"
    /\ si <= Len(Deck.sections)
    /\ ~CopyFiles(Deck.sections[si].images, images).ok
    /\ images' = CopyFiles(Deck.sections[si].images, images).dir
    /\ Failed
    /\ effects' = Append(effects, Effect("fail_copy"))
    /\ UNCHANGED <<builderVars, options, di, si, package_json,
                   package_scripts, unit_content, unit_objectives,
                   unit_summary, files, package_json_file>>

\* lines 143-146: the template cannot be read
TemplateFail ==
    /\ pc = "copy"
    /\ si > Len(Deck.sections)
    /\ ~LoadTemplate(Deck).ok
    /\ Failed
    /\ effects' = Append(effects, Effect("fail_template"))
    /\ UNCHANGED <<builderVars, options, di, si, package_json,
                   package_scripts, unit_content, unit_objectives,
                   unit_summary, files, images, package_json_file>>

\* lines 143-157: the deck's text is written to its file
WriteDeck ==
    /\ pc = "copy"
    /\ si > Len(Deck.sections)
    /\ LoadTemplate(Deck).ok
    /\ LET slides_content ==
             Substitute(LoadTemplate(Deck).text, Deck, unit_content,
                        unit_objectives, unit_summary, options.theme)
       IN  files' = MapInsert(files, DeckOutputStr(Deck), slides_content)
    /\ di' = di + 1
    /\ pc' = "loop"
    /\ effects' = effects \o <<Effect("template"), Effect("write")>>
    /\ UNCHANGED <<builderVars, options, si, package_json, package_scripts,
                   unit_content, unit_objectives, unit_summary, images,
                   package_json_file, result>>

\* line 157: write_all fails, having written nothing or a part of the text
WriteDeckFail ==
    /\ pc = "copy"
    /\ si > Len(Deck.sections)
    /\ LoadTemplate(Deck).ok
    /\ LET slides_content ==
             Substitute(LoadTemplate(Deck).text, Deck, unit_content,
                        unit_objectives, unit_summary, options.theme)
       IN  \E n \in {0, Len(slides_content) \div 2} :
              files' = MapInsert(files, DeckOutputStr(Deck),
                                 SubSeq(slides_content, 1, n))
    /\ Failed
    /\ effects' = effects \o <<Effect("template"), Effect("fail_write")>>
    /\ UNCHANGED <<builderVars, options, di, si, package_json,
                   package_scripts, unit_content, unit_objectives,
                   unit_summary, images, package_json_file>>

\* lines 160-161: after the last deck, the underscore key
LoopExit ==
    /\ pc = "loop"
    /\ di > Len(package.decks)
    /\ package_scripts' = MapInsert(package_scripts, SENTINEL, JString(<<>>))
    /\ pc' = "merge"
    /\ UNCHANGED <<builderVars, options, di, si, package_json, unit_content,
                   unit_objectives, unit_summary, files, images,
                   package_json_file, result, effects>>

\* lines 163-174: the scripts are moved into the manifest
AppendScripts ==
    /\ pc = "merge"
    /\ MergeScripts(package_json, package_scripts).ok
    /\ package_json' = MergeScripts(package_json, package_scripts).json
    /\ package_scripts' = EmptyMap
    /\ pc' = "write_pkg"
    /\ UNCHANGED <<builderVars, options, di, si, unit_content,
                   unit_objectives, unit_summary, files, images,
                   package_json_file, result, effects>>

\* line 168: the manifest's scripts field is no object
AppendScriptsFail ==
    /\ pc = "merge"
    /\ ~MergeScripts(package_json, package_scripts).ok
    /\ Failed
    /\ UNCHANGED <<builderVars, options, di, si, package_json,
                   package_scripts, unit_content, unit_objectives,
                   unit_summary, files, images, package_json_file, effects>>

\* lines 176-181: slides/package.json is written, render returns Ok
WritePackageJson ==
    /\ pc = "write_pkg"
    /\ package_json_file' = JsonFile(package_json)
    /\ pc' = "done"
    /\ result' = "ok"
    /\ effects' = Append(effects, [op |-> "write_pkg", deck |-> 0])
    /\ UNCHANGED <<builderVars, options, di, si, package_json,
                   package_scripts, unit_content, unit_objectives,
                   unit_summary, files, images>>

\* lines 178-179: create_file fails and leaves the file as it was, or
\* write_all fails and leaves it truncated
WritePackageJsonFail ==
    /\ pc = "write_pkg"
    /\ package_json_file' \in {package_json_file, Truncated}
    /\ Failed
    /\ effects' = Append(effects, [op |-> "write_pkg", deck |-> 0])
    /\ UNCHANGED <<builderVars, options, di, si, package_json,
                   package_scripts, unit_content, unit_objectives,
                   unit_summary, files, images>>

Next ==
    \/ ManifestFail
    \/ CreateDirFail
    \/ RenderStart
    \/ LoopHead
    \/ ReadSection
    \/ ReadSectionFail
    \/ SkipDeck
    \/ CreateFile
    \/ CreateFileFail
    \/ RegisterDev
    \/ RegisterBuild
    \/ RegisterExport
    \/ CopyImages
    \/ CopyImagesFail
    \/ TemplateFail
    \/ WriteDeck
    \/ WriteDeckFail
    \/ LoopExit
    \/ AppendScripts
    \/ AppendScriptsFail
    \/ WritePackageJson
    \/ WritePackageJsonFail

Spec == Init /\ [][Next]_vars

-----------------------------------------------------------------------------
(* The builder run: builder(name), then any calls, up to build().          *)

NextBuilder ==
    \/ \E a \in DeckArgs : BuilderDeck(a)
    \/ \E c \in ContentArgs : DeckSection(c)
    \/ \E o \in ObjectiveArgs : SectionObjective(o)
    \/ \E s \in SummaryArgs : SectionSummary(s)
    \/ \E f \in FurtherReadingArgs : SectionFurtherReading(f)
    \/ \E i \in ImageArgs : SectionImage(i)
    \/ SectionAdd
    \/ DeckAdd
    \/ Build

\* builder(name) has been called, render has not
InitBuilder == BuilderStart /\ RenderIdle

SpecBuilder == InitBuilder /\ [][NextBuilder]_vars

-----------------------------------------------------------------------------
(* What the claims speak of, stated on render's inputs.                    *)

\* the section's content document, when it can be read
Document(section) == ReadToString(section.content).text

Readable(deck) ==
    \A i \in 1..Len(deck.sections) : ReadToString(deck.sections[i].content).ok

\* the fragment a section's document contributes to the deck's content
Frag(document) ==
    IF Trim(document) = <<>> THEN <<>>
    ELSE IF StartsWith(Trim(document), <<"-", "-", "-">>)
         THEN Trim(document) \o <<"\n">>
         ELSE <<"-", "-", "-", "\n", "\n">> \o Trim(document) \o <<"\n">>

\* frag(s1) ++ ... ++ frag(sn) of the first n sections
RECURSIVE FragsOf(_, _)
FragsOf(secs, n) ==
    IF n = 0 THEN <<>>
    ELSE FragsOf(secs, n - 1) \o Frag(Document(secs[n]))

RECURSIVE Bullets(_)
Bullets(items) ==
    IF items = <<>> THEN <<>>
    ELSE <<"-", " ">> \o Trim(Head(items)) \o <<"\n">> \o Bullets(Tail(items))

\* the bullet lines of the first n sections' items of one field
RECURSIVE BulletsOf(_, _, _)
BulletsOf(sections, field, n) ==
    IF n = 0 THEN <<>>
    ELSE BulletsOf(sections, field, n - 1) \o Bullets(sections[n][field])

\* a deck all of whose three accumulators end empty
SkippedDeck(deck) ==
    /\ Readable(deck)
    /\ \A i \in 1..Len(deck.sections) :
          /\ Trim(Document(deck.sections[i])) = <<>>
          /\ deck.sections[i].objectives = <<>>
          /\ deck.sections[i].summary = <<>>

\* a deck that produces output
EmittedDeck(deck) == Readable(deck) /\ ~SkippedDeck(deck)

\* the three script keys of a deck, from its index pair
KeysOf(deck) ==
    LET p == Decimal(deck.module_index) \o <<"_">> \o Decimal(deck.unit_index)
    IN  {<<"d", "e", "v", "-">> \o p, <<"b", "u", "i", "l", "d", "-">> \o p,
         <<"e", "x", "p", "o", "r", "t", "-">> \o p}

ImagesOf(deck) ==
    UNION {{deck.sections[i].images[k] : k \in 1..Len(deck.sections[i].images)} :
             i \in 1..Len(deck.sections)}

Decks == package.decks
DeckIds == 1..Len(package.decks)

\* the deck's iteration is over, or is past the registration of its scripts
PastRegistration(i) == i < di \/ (i = di /\ pc = "copy")

\* the text a deck's file holds once the deck is written
RenderedText(deck) ==
    Substitute(LoadTemplate(deck).text, deck,
               FragsOf(deck.sections, Len(deck.sections)),
               BulletsOf(deck.sections, "objectives", Len(deck.sections)),
               BulletsOf(deck.sections, "summary", Len(deck.sections)),
               options.theme)

\* the scripts object of the manifest render was given
InputManifest == ParseManifest(options.package_json)
InputHasScriptsObject ==
    /\ InputManifest.ok
    /\ "scripts" \in DOMAIN InputManifest.json
    /\ InputManifest.json["scripts"].kind = "object"
InputHasBadScripts ==
    /\ InputManifest.ok
    /\ "scripts" \in DOMAIN InputManifest.json
    /\ InputManifest.json["scripts"].kind # "object"
InputHasNoScripts ==
    /\ InputManifest.ok
    /\ "scripts" \notin DOMAIN InputManifest.json

\* the keys render generates for a package all of whose decks are processed
GeneratedKeys ==
    {<<"_">>} \cup UNION {KeysOf(Decks[i]) : i \in {j \in DeckIds : EmittedDeck(Decks[j])}}

\* the last emitted deck that generates key k
LastDeckWith(k) ==
    Decks[CHOOSE i \in DeckIds :
            /\ EmittedDeck(Decks[i]) /\ k \in KeysOf(Decks[i])
            /\ \A j \in DeckIds :
                 (EmittedDeck(Decks[j]) /\ k \in KeysOf(Decks[j])) => j <= i]

\* the command generated for key k
GeneratedValue(k) ==
    IF k = <<"_">> THEN JString(<<>>)
    ELSE IF k[1] = "d" THEN DevScript(LastDeckWith(k))
    ELSE IF k[1] = "b" THEN BuildScript(LastDeckWith(k), options.url_base)
    ELSE ExportScript(LastDeckWith(k))

\* slides/package.json is as render found it
PackageJsonNotWritten ==
    /\ package_json_file \in {Absent, OldPackageJsonFile}
    /\ \A n \in 1..Len(effects) : effects[n].op # "write_pkg"

-----------------------------------------------------------------------------
(* The claims.                                                             *)

\* C1: a deck whose three accumulators are all empty has no effect but the
\* reads of its sections' documents: its iteration creates no file,
\* registers no script and copies no image.  A file at its output path, a
\* script key of its index pair or one of its images in slides/images is
\* there only as left by an earlier render or as produced for another deck
\* of the package that is not skipped.
C1_SkipInvariant ==
    \A i \in DeckIds :
       SkippedDeck(Decks[i]) =>
          /\ \A n \in 1..Len(effects) :
                effects[n].deck = i => effects[n].op = "read"
          /\ DeckOutputStr(Decks[i]) \in DOMAIN files =>
                \/ files[DeckOutputStr(Decks[i])] = OldDeckFile
                \/ \E j \in DeckIds \ {i} :
                      /\ ~SkippedDeck(Decks[j])
                      /\ DeckOutputStr(Decks[j]) = DeckOutputStr(Decks[i])
          /\ KeysOf(Decks[i]) \cap DOMAIN package_scripts # {} =>
                \E j \in DeckIds \ {i} :
                   ~SkippedDeck(Decks[j]) /\ KeysOf(Decks[j]) = KeysOf(Decks[i])
          /\ \A img \in ImagesOf(Decks[i]) \cap images :
                \E j \in DeckIds \ {i} :
                   ~SkippedDeck(Decks[j]) /\ img \in ImagesOf(Decks[j])

\* a render that ended Ok, having skipped a deck with an image beside a
\* deck of the same index pair that it wrote
C1_Witness ==
    /\ result = "ok"
    /\ \E i, j \in DeckIds :
          /\ SkippedDeck(Decks[i])
          /\ ImagesOf(Decks[i]) # {}
          /\ ImagesOf(Decks[i]) \cap images = {}
          /\ EmittedDeck(Decks[j])
          /\ KeysOf(Decks[j]) = KeysOf(Decks[i])
          /\ DeckOutputStr(Decks[j]) \in DOMAIN files

\* C7: while a deck's sections are aggregated, the content accumulator is
\* the in-order concatenation of the fragments of the sections read so far:
\* nothing for a document empty after trimming, the trimmed text and a
\* newline when it begins with "---", and "---", a blank line, the trimmed
\* text and a newline otherwise.  So the content of sections [a, b] is the
\* content of [a] followed by that of [b].
C7_ContentIsConcatenation ==
    pc = "read" =>
       /\ unit_content = FragsOf(Deck.sections, si - 1)
       /\ si > 1 =>
            unit_content =
               FragsOf(Deck.sections, si - 2)
               \o FragsOf(<<Deck.sections[si - 1]>>, 1)

\* two sections aggregated: one that begins with the rule marker and is
\* not prefixed, one that is trimmed and prefixed
C7_Witness ==
    /\ pc = "read"
    /\ si = 3
    /\ Deck.sections[1].content = "rule.md"
    /\ Deck.sections[2].content = "pad.md"
    /\ unit_content = <<"-", "-", "-", "\n", "b", "\n",
                        "-", "-", "-", "\n", "\n", "c", " ", "d", "\n">>

\* C4: once a deck's iteration is past the registration step, the
\* accumulated scripts hold all three of dev-p, build-p and export-p,
\* p = "<module_index>_<unit_index>", if the deck produces output; outside
\* the registration block of lines 116-137 (also when render has failed)
\* the map holds all three keys of a deck or none, never a subset; the
\* accumulated keys are exactly those of the decks that produced output so
\* far (and the sentinel once the loop is left), and they all reach the
\* manifest.
C4_ScriptKeysTogether ==
    /\ pc \in {"loop", "read", "reg_dev", "reg_build", "reg_export", "copy",
               "merge"} =>
          \A i \in DeckIds :
             (PastRegistration(i) /\ EmittedDeck(Decks[i])) =>
                KeysOf(Decks[i]) \subseteq DOMAIN package_scripts
    /\ pc \in {"loop", "read", "copy", "merge", "failed"} =>
          \A i \in DeckIds :
             \/ KeysOf(Decks[i]) \subseteq DOMAIN package_scripts
             \/ KeysOf(Decks[i]) \cap DOMAIN package_scripts = {}
    /\ pc \in {"loop", "read", "copy", "merge"} =>
          DOMAIN package_scripts \ {<<"_">>} =
             UNION {KeysOf(Decks[i]) :
                      i \in {j \in DeckIds : PastRegistration(j)
                                             /\ EmittedDeck(Decks[j])}}
    /\ pc \in {"write_pkg", "done"} =>
          \A i \in DeckIds :
             EmittedDeck(Decks[i]) =>
                KeysOf(Decks[i]) \subseteq DOMAIN package_json["scripts"].map

\* the second of two decks of different index pairs is past registration,
\* with six keys accumulated
C4_Witness ==
    /\ pc = "copy"
    /\ di = 2
    /\ EmittedDeck(Decks[1])
    /\ KeysOf(Decks[1]) # KeysOf(Decks[2])
    /\ Cardinality(DOMAIN package_scripts) = 6
    /\ <<"b", "u", "i", "l", "d", "-", "1", "2", "_", "3">>
          \in DOMAIN package_scripts

\* C3: when the manifest given has a scripts object, after the merge every
\* key of it that is not generated keeps its value, and every generated
\* key, the sentinel "_" with the empty string included, holds the value
\* generated (by the last deck generating it), whatever the manifest held
\* for it; slides/package.json holds that manifest.
C3_ManifestMerge ==
    (InputHasScriptsObject /\ pc \in {"write_pkg", "done"}) =>
       LET old == InputManifest.json["scripts"].map
           new == package_json["scripts"].map
       IN  /\ package_json["scripts"].kind = "object"
           /\ DOMAIN new = DOMAIN old \cup GeneratedKeys
           /\ \A k \in DOMAIN old \ GeneratedKeys : new[k] = old[k]
           /\ \A k \in GeneratedKeys : new[k] = GeneratedValue(k)
           /\ new[<<"_">>] = JString(<<>>)
           /\ pc = "done" => package_json_file = JsonFile(package_json)

\* a manifest with a test script, an old dev-1_1 and an old "_" merged
\* with the scripts of an emitted deck of module 1 unit 1
C3_Witness ==
    /\ pc = "done"
    /\ options.package_json = Some("pkg_scripts.json")
    /\ \E i \in DeckIds :
          EmittedDeck(Decks[i]) /\ Decks[i].module_index = 1
          /\ Decks[i].unit_index = 1
    /\ package_json_file.json["scripts"].map[<<"t", "e", "s", "t">>]
          = JString(<<"j">>)
    /\ package_json_file.json["scripts"].map[<<"d", "e", "v", "-", "1", "_", "1">>]
          # JString(<<"o", "l", "d">>)

\* C8: with a manifest whose scripts field is no object, render never
\* returns Ok and slides/package.json is not written; with a manifest
\* without a scripts field, the scripts object written is exactly the
\* generated entries and the sentinel.
C8_ScriptsFieldShape ==
    /\ InputHasBadScripts =>
          /\ result # "ok"
          /\ pc \notin {"write_pkg", "done"}
          /\ PackageJsonNotWritten
          /\ (pc = "failed" /\ di > Len(Decks)) => result = "err"
    /\ (InputHasNoScripts /\ pc \in {"write_pkg", "done"}) =>
          /\ package_json["scripts"].kind = "object"
          /\ DOMAIN package_json["scripts"].map = GeneratedKeys
          /\ \A k \in GeneratedKeys :
                package_json["scripts"].map[k] = GeneratedValue(k)
          /\ pc = "done" => package_json_file = JsonFile(package_json)

\* every deck was processed and one was written, then the merge found the
\* scripts field to be a string
C8_Witness ==
    /\ InputHasBadScripts
    /\ pc = "failed"
    /\ result = "err"
    /\ di = Len(Decks) + 1
    /\ \E n \in 1..Len(effects) : effects[n].op = "write"

\* C2: when render has failed while processing the k-th deck, it returned
\* the error, nothing was done for a deck after the k-th (no read, create,
\* registration, copy or write), the file of every deck before the k-th
\* that produced output holds that deck's full text, and
\* slides/package.json is not written.
C2_AbortOnFirstFailure ==
    (pc = "failed" /\ di \in DeckIds) =>
       /\ result = "err"
       /\ \A n \in 1..Len(effects) : effects[n].deck <= di
       /\ \A j \in 1..(di - 1) :
             EmittedDeck(Decks[j]) =>
                /\ DeckOutputStr(Decks[j]) \in DOMAIN files
                /\ files[DeckOutputStr(Decks[j])] = RenderedText(Decks[j])
       /\ PackageJsonNotWritten

\* the parts of C2 that do not depend on the decks' output paths being
\* distinct: the error is returned, no later deck is processed, the
\* manifest is not written, and the failing deck's steps leave the file of
\* every earlier deck with another output path as that deck wrote it
C2_AbortExceptSharedPath ==
    (pc = "failed" /\ di \in DeckIds) =>
       /\ result = "err"
       /\ \A n \in 1..Len(effects) : effects[n].deck <= di
       /\ \A j \in 1..(di - 1) :
             (/\ EmittedDeck(Decks[j])
              /\ \A m \in (j + 1)..di :
                    DeckOutputStr(Decks[m]) # DeckOutputStr(Decks[j])) =>
                /\ DeckOutputStr(Decks[j]) \in DOMAIN files
                /\ files[DeckOutputStr(Decks[j])] = RenderedText(Decks[j])
       /\ PackageJsonNotWritten

\* the placeholder tokens and what each stands for
Tokens ==
    <<TOK_MOD_TITLE, TOK_MOD_INDEX, TOK_UNIT_INDEX, TOK_UNIT_TITLE,
      TOK_CONTENT, TOK_OBJECTIVES, TOK_SUMMARY, TOK_THEME>>
Values(deck, content, objectives, summary, theme) ==
    <<deck.module_name, Decimal(deck.module_index),
      Decimal(deck.unit_index), deck.name, content, objectives, summary,
      theme>>

\* one pass over the template: every token occurring in the template is
\* replaced by its value, the values are not looked at again
RECURSIVE SinglePass(_, _, _)
SinglePass(template, i, values) ==
    LET at == {k \in i..Len(template) :
                 \E t \in 1..Len(Tokens) : MatchAt(template, k, Tokens[t])}
    IN  IF at = {} THEN SubSeq(template, i, Len(template))
        ELSE LET k == CHOOSE x \in at : \A y \in at : x <= y
                 t == CHOOSE x \in 1..Len(Tokens) :
                         MatchAt(template, k, Tokens[x])
             IN  SubSeq(template, i, k - 1) \o values[t]
                 \o SinglePass(template, k + Len(Tokens[t]), values)

\* C5: the text written for a deck is the single-pass substitution of its
\* template: every placeholder of the template replaced, a token that
\* occurs only inside a substituted value left as it is.
C5_SinglePassSubstitution ==
    (/\ pc = "loop" /\ di > 1
     /\ ~AllEmpty(unit_content, unit_objectives, unit_summary)) =>
       files[DeckOutputStr(Decks[di - 1])] =
          SinglePass(LoadTemplate(Decks[di - 1]).text, 1,
                     Values(Decks[di - 1], unit_content, unit_objectives,
                            unit_summary, options.theme))

\* the parts of C5 the chain of replace calls does have: a template whose
\* values contain no placeholder token is substituted as in a single pass
NoTokenIn(text) ==
    \A k \in 1..Len(text) :
       \A t \in 1..Len(Tokens) : ~MatchAt(text, k, Tokens[t])
C5_SinglePassWithoutTokensInValues ==
    (/\ pc = "loop" /\ di > 1
     /\ ~AllEmpty(unit_content, unit_objectives, unit_summary)
     /\ \A v \in 1..Len(Tokens) :
           NoTokenIn(Values(Decks[di - 1], unit_content, unit_objectives,
                            unit_summary, options.theme)[v])) =>
       files[DeckOutputStr(Decks[di - 1])] =
          SinglePass(LoadTemplate(Decks[di - 1]).text, 1,
                     Values(Decks[di - 1], unit_content, unit_objectives,
                            unit_summary, options.theme))

\* the effects of one deck are in the order the ranks give
InOrder(rank) ==
    \A a, b \in 1..Len(effects) :
       (/\ a < b
        /\ effects[a].deck = effects[b].deck
        /\ effects[a].op \in DOMAIN rank
        /\ effects[b].op \in DOMAIN rank) =>
          rank[effects[a].op] <= rank[effects[b].op]

\* render failed on the copy of an image or the read of the template
FailedOnCopyOrTemplate ==
    /\ pc = "failed"
    /\ effects # <<>>
    /\ effects[Len(effects)].op \in {"fail_copy", "fail_template"}

CreatedByDeck(i) ==
    \E n \in 1..Len(effects) : effects[n].deck = i /\ effects[n].op = "create"

\* C10 as stated: per deck the effects come in the order image copy,
\* script registration, template load, creation and write of the file; so
\* when the copy of an image or the read of the template fails, the deck's
\* file has been neither created nor truncated.
C10_StepOrderAsStated ==
    /\ InOrder([op \in {"copy", "register", "template", "create", "write"} |->
                  CASE op = "copy" -> 1 [] op = "register" -> 2
                    [] op = "template" -> 3 [] op = "create" -> 4
                    [] op = "write" -> 5])
    /\ FailedOnCopyOrTemplate => ~CreatedByDeck(di)

\* C10 amended: per deck the effects come in the order creation (or
\* truncation) of the file, script registration, image copy, template
\* load, write; so when the copy of an image or the read of the template
\* fails, the deck's file has been created or truncated and is empty, and
\* the deck's three scripts are registered.
C10_StepOrder ==
    /\ InOrder([op \in {"copy", "register", "template", "create", "write"} |->
                  CASE op = "create" -> 1 [] op = "register" -> 2
                    [] op = "copy" -> 3 [] op = "template" -> 4
                    [] op = "write" -> 5])
    /\ FailedOnCopyOrTemplate =>
          /\ CreatedByDeck(di)
          /\ DeckOutputStr(Deck) \in DOMAIN files
          /\ files[DeckOutputStr(Deck)] = <<>>
          /\ KeysOf(Deck) \subseteq DOMAIN package_scripts

\* the template of a deck "A" of module 1 unit 1 cannot be read, and the
\* file an earlier render left for that deck is now empty
C10_Witness ==
    /\ pc = "failed"
    /\ di \in DeckIds
    /\ effects # <<>>
    /\ effects[Len(effects)].op = "fail_template"
    /\ package_json_file = OldPackageJsonFile
    /\ DeckOutputStr(Deck) = <<"1", "_", "1", "_", "a", ".", "m", "d">>
    /\ files[DeckOutputStr(Deck)] = <<>>
    /\ images # {}

\* C6: the package's deck list is the decks whose add() was called, in call
\* order, each with the sections whose add() was called before it and the
\* items pushed to each, in call order; a live deck or section builder
\* holds what was committed or pushed to it, the package is changed by no
\* other call, and a builder dropped without add() leaves nothing.
C6_StagedCommit ==
    /\ package.decks = deckLog
    /\ deck_builder # None =>
          /\ openDeck # None
          /\ deck_builder[1].sections = secLog
          /\ deck_builder[1].name = openDeck[1].name
          /\ deck_builder[1].module_index = openDeck[1].module_index
          /\ deck_builder[1].unit_index = openDeck[1].unit_index
    /\ section_builder # None =>
          /\ openSection # None
          /\ section_builder[1] = openSection[1]
    /\ deck_builder = None => section_builder = None

\* build() after two decks were added, the first with a section holding an
\* objective, and after a builder was dropped without add()
C6_Witness ==
    /\ built
    /\ Len(package.decks) = 2
    /\ package.decks[1] # package.decks[2]
    /\ Len(package.decks[1].sections) = 1
    /\ package.decks[1].sections[1].objectives # <<>>
    /\ abandoned >= 1

\* C9: no two decks of a package have the same (module_index, unit_index).
C9_DeckIdentityUnique ==
    \A i, j \in DeckIds :
       i # j =>
          <<Decks[i].module_index, Decks[i].unit_index>>
             # <<Decks[j].module_index, Decks[j].unit_index>>

=============================================================================
